---- MODULE Spec2Model ----
(***************************************************************************)
(* msitrace: the interop layer between install() and the Windows Installer *)
(* engine.  Two specifications share this module:                          *)
(*   Spec     one run of install() (src/lib.rs) with the engine calling    *)
(*            back into the bridge registered by set_external_handler;     *)
(*   RecSpec  the Record accessors of src/ffi.rs applied to engine fields. *)
(* Text is a sequence of bytes (0..255).                                   *)
(***************************************************************************)
EXTENDS Integers, Sequences, FiniteSets, TLC

VARIABLES
    path,           \* install(): package path argument (bytes)
    log,            \* install(): Option<String> log path
    properties,     \* install(): Vec<String> of PROPERTY=VALUE tokens
    pc,             \* position of install() in its body
    result,         \* value install() returned, Pending while running
    events,         \* native calls and bridge steps, in program order
    frameLive,      \* set_external_handler's frame (context + handler) is live
    logStatus,      \* status MsiEnableLog returned, -1 before it is called
    regStatus,      \* status MsiSetExternalUIRecord returned, -1 before
    engineHandler,  \* what the engine has registered: proc, context, filter
    previous_handler, \* set_external_handler's local: the handler handed back
    existingHandler, \* what the engine had registered when install() was called
    installArgs,    \* arguments MsiInstallProduct received
    installRet,     \* code MsiInstallProduct returned, -1 before it returns
    cb,             \* the trampoline invocation in flight
    emitted,        \* messages the engine handed to the trampoline
    stdout,         \* lines written by println!
    nextHandle,     \* next record handle the engine issues
    rField,         \* RecSpec: engine content of the field under query
    rOp,            \* RecSpec: last accessor applied
    rIn,            \* RecSpec: its inputs
    rOut,           \* RecSpec: its result
    rCalls,         \* RecSpec: engine calls it issued, in order
    argv,           \* CliSpec: the command line main() is started with
    args,           \* CliSpec: Args as parsed by Args::parse()
    mainPc,         \* CliSpec: position of main() in its body
    exit            \* CliSpec: how the process ended, Pending while running

vars == <<path, log, properties, pc, result, events, frameLive, logStatus, regStatus,
          engineHandler, previous_handler, existingHandler, installArgs, installRet, cb, emitted, stdout,
          nextHandle, rField, rOp, rIn, rOut, rCalls, argv, args, mainPc, exit>>

installVars == <<path, log, properties, pc, result, events, frameLive,
                 logStatus, regStatus, engineHandler, previous_handler, existingHandler, installArgs, installRet, cb,
                 emitted, stdout, nextHandle>>

recVars == <<rField, rOp, rIn, rOut, rCalls>>

cliVars == <<argv, args, mainPc, exit>>

----------------------------------------------------------------------------
(* Bounds of the model. *)

\* messages the engine emits during one MsiInstallProduct call
MaxMessages == 2
\* byte length of a field's text
MaxLen == 2
\* characters by which the first retrieval call over-reports the length
MaxSlack == 1

----------------------------------------------------------------------------
(* Constants of src/ffi.rs. *)

ERROR_SUCCESS == 0
ERROR_MORE_DATA == 234
\* -0x8000_0000, the least i32
MSI_NULL_INTEGER == -2147483647 - 1
VERBOSE == 4096

\* enum MessageType, in declaration order
MessageType ==
    [FatalExit    |-> 0,
     Error        |-> 16777216,
     Warning      |-> 33554432,
     User         |-> 50331648,
     Info         |-> 67108864,
     ActionStart  |-> 134217728,
     ActionData   |-> 150994944,
     CommonData   |-> 184549376,
     Initialize   |-> 201326592,
     Terminate    |-> 218103808,
     InstallStart |-> 436207616,
     InstallEnd   |-> 452984832]

\* enum HandlerResult
HandlerResult == [Default |-> 0, OK |-> 1, Cancel |-> 2]

RECURSIVE BitOrU32(_, _)
\* u32 | u32, bit by bit
BitOrU32(a, b) ==
    IF a = 0 THEN b
    ELSE IF b = 0 THEN a
    ELSE (IF a % 2 = 1 \/ b % 2 = 1 THEN 1 ELSE 0)
         + 2 * BitOrU32(a \div 2, b \div 2)

\* impl BitOr for MessageType: (self as u32) | (rhs as u32)
MessageType_bitor(lhs, rhs) == BitOrU32(lhs, rhs)

\* impl BitOr<MessageType> for u32: self | (rhs as u32)
u32_bitor(self, rhs) == BitOrU32(self, rhs)

\* the filter expression with its last operand left out
filter_operands_short ==
    <<MessageType.FatalExit, MessageType.Error, MessageType.Warning,
      MessageType.User, MessageType.Info, MessageType.ActionStart,
      MessageType.ActionData, MessageType.CommonData, MessageType.Initialize,
      MessageType.Terminate, MessageType.InstallStart>>

\* the operands of the filter expression of set_external_handler, in order
filter_operands ==
    <<MessageType.FatalExit, MessageType.Error, MessageType.Warning,
      MessageType.User, MessageType.Info, MessageType.ActionStart,
      MessageType.ActionData, MessageType.CommonData, MessageType.Initialize,
      MessageType.Terminate, MessageType.InstallStart, MessageType.InstallEnd>>

RECURSIVE FoldOr(_, _, _)
\* a | b | c | ... is left-associative: the first `|` is MessageType|MessageType,
\* every later one is u32|MessageType
FoldOr(acc, ops, i) ==
    IF i > Len(ops) THEN acc ELSE FoldOr(u32_bitor(acc, ops[i]), ops, i + 1)

\* let filter: u32 = MessageType::FatalExit | ... | MessageType::InstallEnd
filter ==
    FoldOr(MessageType_bitor(filter_operands[1], filter_operands[2]),
           filter_operands, 3)

----------------------------------------------------------------------------
(* Text helpers. *)

\* CString::new fails with NulError iff the bytes contain an interior 0
HasNul(s) == \E i \in 1..Len(s) : s[i] = 0

RECURSIVE Utf8From(_, _)
\* String::from_utf8's validation from position i: lead byte, then the
\* continuation bytes it announces
Utf8From(s, i) ==
    IF i > Len(s) THEN TRUE
    ELSE LET b == s[i]
             n == IF b < 128 THEN 0
                  ELSE IF b >= 194 /\ b <= 223 THEN 1
                  ELSE IF b >= 224 /\ b <= 239 THEN 2
                  ELSE IF b >= 240 /\ b <= 244 THEN 3
                  ELSE -1
         IN  /\ n >= 0
             /\ i + n <= Len(s)
             /\ \A k \in 1..n : s[i + k] >= 128 /\ s[i + k] <= 191
             /\ Utf8From(s, i + n + 1)

IsUtf8(s) == Utf8From(s, 1)

\* Vec::truncate(len): no effect when len is not below the vector's length
Truncate(v, len) == IF len < Len(v) THEN SubSeq(v, 1, len) ELSE v

\* vec![0; n]
Zeros(n) == [i \in 1..n |-> 0]

----------------------------------------------------------------------------
(* Errors and results (src/lib.rs). *)

NoError == [kind |-> "", code |-> 0, inner |-> ""]

\* impl From<u32> for Error
Error_from_u32(code) == [kind |-> "ErrorCode", code |-> code, inner |-> ""]

\* a decode failure reported as an engine code
Error_from_FromUtf8Error_as_code == Error_from_u32(13)

\* impl From<FromUtf8Error> for Error
Error_from_FromUtf8Error == [kind |-> "Other", code |-> 0, inner |-> "FromUtf8Error"]

\* impl From<NulError> for Error
Error_from_NulError == [kind |-> "Other", code |-> 0, inner |-> "NulError"]

Ok(v) == [tag |-> "Ok", val |-> v, err |-> NoError]
Err(e) == [tag |-> "Err", val |-> <<>>, err |-> e]
Pending == [tag |-> "Pending", val |-> <<>>, err |-> NoError]

----------------------------------------------------------------------------
(* The engine's side of the C ABI (extern "C" block of src/ffi.rs).  An      *)
(* engine call is recorded as [ev, h, f, n]: entry point, record handle,     *)
(* field index, and the capacity / mode / filter / return value it carries.  *)

Call(ev, h, f, n) == [ev |-> ev, h |-> h, f |-> f, n |-> n]

\* statuses the engine may answer that are neither success nor more-data
EngineFailures == {6, 1603}

\* The engine's answer to one retrieval call on text e.text with a buffer
\* buf of capacity cap; e.st1 / e.st2 is the status it decides on for the
\* first / second call, e.slack the characters by which "more data" over-reports.
\* Success copies what fits below the terminator and reports the count copied.
EngineRetrieve(e, buf, cap, nth) ==
    LET st == IF nth = 1 THEN e.st1 ELSE e.st2
        n  == IF cap = 0 THEN 0
              ELSE IF Len(e.text) < cap THEN Len(e.text) ELSE cap - 1
    IN  IF st = ERROR_MORE_DATA
        THEN [status |-> st, buf |-> buf, len |-> Len(e.text) + e.slack]
        ELSE IF st = ERROR_SUCCESS
        THEN [status |-> st,
              buf |-> [i \in 1..Len(buf) |->
                         IF i <= n THEN e.text[i]
                         ELSE IF i = n + 1 THEN 0 ELSE buf[i]],
              len |-> n]
        ELSE [status |-> st, buf |-> buf, len |-> cap]

\* fn MsiRecordGetStringA(h, index, value, value_len) -> u32
MsiRecordGetString(e, buf, cap, nth) == EngineRetrieve(e, buf, cap, nth)

\* fn MsiFormatRecordA(install, record, value, value_len) -> u32
MsiFormatRecord(e, buf, cap, nth) == EngineRetrieve(e, buf, cap, nth)

----------------------------------------------------------------------------
(* Handles and Record (src/ffi.rs). *)

\* impl Drop for OwnedMsiHandle: MsiCloseHandle(**self)
OwnedMsiHandle_drop(h) == <<Call("MsiCloseHandle", h, 0, 0)>>

\* a borrow that takes ownership of a copy of the handle and drops it
Record_deref_releases(h) == <<Call("MsiCloseHandle", h, 0, 0)>>

\* impl Deref for OwnedMsiHandle / Record: a borrow of the raw handle; no
\* engine call
Record_deref(h) == <<>>

\* string_data with the buffer cut to the first call's length
string_data_first_len(h, field, e) ==
    LET r1 == MsiRecordGetString(e, <<>>, 0, 1)
        c1 == <<Call("MsiRecordGetString", h, field, 0)>>
    IN  IF r1.status # ERROR_MORE_DATA
        THEN [res |-> Err(Error_from_u32(r1.status)), calls |-> c1,
              second |-> FALSE, buf |-> <<>>, final_len |-> 0]
        ELSE LET value_len == r1.len + 1
                 r2 == MsiRecordGetString(e, Zeros(value_len), value_len, 2)
                 c2 == c1 \o <<Call("MsiRecordGetString", h, field, value_len)>>
                 value == Truncate(r2.buf, r1.len)
             IN  IF r2.status # ERROR_SUCCESS
                 THEN [res |-> Err(Error_from_u32(r2.status)), calls |-> c2,
                       second |-> TRUE, buf |-> r2.buf, final_len |-> r2.len]
                 ELSE [res |-> IF IsUtf8(value) THEN Ok(value)
                               ELSE Err(Error_from_FromUtf8Error),
                       calls |-> c2,
                       second |-> TRUE, buf |-> r2.buf, final_len |-> r2.len]

\* Record::string_data(field).  Returns the Result, the engine calls issued,
\* and the second call's buffer and length as the engine left them.
string_data(h, field, e) ==
    LET r1 == MsiRecordGetString(e, <<>>, 0, 1)
        c1 == Record_deref(h) \o <<Call("MsiRecordGetString", h, field, 0)>>
    IN  IF r1.status # ERROR_MORE_DATA
        THEN [res |-> Err(Error_from_u32(r1.status)), calls |-> c1,
              second |-> FALSE, buf |-> <<>>, final_len |-> 0]
        ELSE LET value_len == r1.len + 1
                 r2 == MsiRecordGetString(e, Zeros(value_len), value_len, 2)
                 c2 == c1 \o Record_deref(h)
                          \o <<Call("MsiRecordGetString", h, field, value_len)>>
                 value == Truncate(r2.buf, r2.len)
             IN  IF r2.status # ERROR_SUCCESS
                 THEN [res |-> Err(Error_from_u32(r2.status)), calls |-> c2,
                       second |-> TRUE, buf |-> r2.buf, final_len |-> r2.len]
                 ELSE [res |-> IF IsUtf8(value) THEN Ok(value)
                               ELSE Err(Error_from_FromUtf8Error),
                       calls |-> c2,
                       second |-> TRUE, buf |-> r2.buf, final_len |-> r2.len]

\* format_text offering the second call no room for the terminator
format_text_no_room(h, e) ==
    LET r1 == MsiFormatRecord(e, <<>>, 0, 1)
        c1 == <<Call("MsiFormatRecord", h, 0, 0)>>
    IN  IF r1.status # ERROR_MORE_DATA
        THEN [res |-> Err(Error_from_u32(r1.status)), calls |-> c1,
              second |-> FALSE, buf |-> <<>>, final_len |-> 0]
        ELSE LET value_len == r1.len
                 r2 == MsiFormatRecord(e, Zeros(value_len), value_len, 2)
                 c2 == c1 \o <<Call("MsiFormatRecord", h, 0, value_len)>>
                 value == Truncate(r2.buf, r2.len)
             IN  IF r2.status # ERROR_SUCCESS
                 THEN [res |-> Err(Error_from_u32(r2.status)), calls |-> c2,
                       second |-> TRUE, buf |-> r2.buf, final_len |-> r2.len]
                 ELSE [res |-> IF IsUtf8(value) THEN Ok(value)
                               ELSE Err(Error_from_FromUtf8Error),
                       calls |-> c2,
                       second |-> TRUE, buf |-> r2.buf, final_len |-> r2.len]

\* Record::format_text(): the same protocol against MsiFormatRecord with the
\* default (0) install handle
format_text(h, e) ==
    LET r1 == MsiFormatRecord(e, <<>>, 0, 1)
        c1 == Record_deref(h) \o <<Call("MsiFormatRecord", h, 0, 0)>>
    IN  IF r1.status # ERROR_MORE_DATA
        THEN [res |-> Err(Error_from_u32(r1.status)), calls |-> c1,
              second |-> FALSE, buf |-> <<>>, final_len |-> 0]
        ELSE LET value_len == r1.len + 1
                 r2 == MsiFormatRecord(e, Zeros(value_len), value_len, 2)
                 c2 == c1 \o Record_deref(h)
                          \o <<Call("MsiFormatRecord", h, 0, value_len)>>
                 value == Truncate(r2.buf, r2.len)
             IN  IF r2.status # ERROR_SUCCESS
                 THEN [res |-> Err(Error_from_u32(r2.status)), calls |-> c2,
                       second |-> TRUE, buf |-> r2.buf, final_len |-> r2.len]
                 ELSE [res |-> IF IsUtf8(value) THEN Ok(value)
                               ELSE Err(Error_from_FromUtf8Error),
                       calls |-> c2,
                       second |-> TRUE, buf |-> r2.buf, final_len |-> r2.len]

\* "(record)"
Placeholder == <<40, 114, 101, 99, 111, 114, 100, 41>>

\* Display with format_text().unwrap_or_default(): no text on failure
Record_fmt_or_default(h, e) ==
    LET r == format_text(h, e)
    IN  [text |-> IF r.res.tag = "Ok" THEN r.res.val ELSE <<>>,
         calls |-> r.calls]

\* impl Display for Record: format_text().unwrap_or_else(|_| "(record)")
Record_fmt(h, e) ==
    LET r == format_text(h, e)
    IN  [text |-> IF r.res.tag = "Ok" THEN r.res.val ELSE Placeholder,
         calls |-> r.calls]

None == [some |-> FALSE, v |-> 0]
Some(v) == [some |-> TRUE, v |-> v]

\* fn MsiRecordGetInteger(h, index) -> i32: the field's raw integer
MsiRecordGetInteger(fld) == fld.int

\* fn MsiRecordIsNull(h, index) -> Win32Bool: the field's raw null flag
MsiRecordIsNull(fld) == fld.null

\* integer_data with the sentinel tested as a threshold
integer_data_threshold(fld) ==
    LET i == MsiRecordGetInteger(fld)
    IN  IF i <= MSI_NULL_INTEGER + 1 THEN None ELSE Some(i)

\* Record::integer_data(field): match on the raw i32 the engine returns
integer_data(fld) ==
    LET i == MsiRecordGetInteger(fld)
    IN  IF i = MSI_NULL_INTEGER THEN None ELSE Some(i)

\* impl Into<bool> for Win32Bool
Win32Bool_into(raw) == raw # 0

\* is_null answered from the integer sentinel instead of the null flag
is_null_by_sentinel(fld) == integer_data(fld) = None

\* Record::is_null(field): the engine's Win32Bool converted to bool
is_null(fld) == Win32Bool_into(MsiRecordIsNull(fld))

----------------------------------------------------------------------------
(* Inputs of one run of install(). *)

NoLog == [some |-> FALSE, v |-> <<>>]

\* "p" and a path with an interior NUL
Paths == {<<112>>, <<112, 0, 113>>}

\* no log, "l", and a log path with an interior NUL
Logs == {NoLog, [some |-> TRUE, v |-> <<108>>], [some |-> TRUE, v |-> <<108, 0>>]}

\* "A=1", "B=2", and a token with an interior NUL
PropertyLists ==
    {<<>>,
     <<(<<65, 61, 49>>), (<<66, 61, 50>>)>>,
     <<(<<66, 61, 50>>), (<<65, 61, 49>>)>>,
     <<(<<65, 61, 49>>), (<<66, 61, 0>>)>>}

\* statuses an engine call may return
EngineStatuses == {ERROR_SUCCESS} \cup EngineFailures

\* categories of the messages the engine emits in the model
EmittedTypes == {MessageType.ActionStart, MessageType.InstallEnd}

\* how the engine answers MsiFormatRecord for an emitted record: "Hi"
\* over-reported by one, bytes that are not UTF-8, a first call answered with
\* success, a second call that fails
FormatBehaviours ==
    {[text |-> <<72, 105>>, slack |-> 1, st1 |-> ERROR_MORE_DATA, st2 |-> ERROR_SUCCESS],
     [text |-> <<255>>, slack |-> 0, st1 |-> ERROR_MORE_DATA, st2 |-> ERROR_SUCCESS],
     [text |-> <<72>>, slack |-> 0, st1 |-> ERROR_SUCCESS, st2 |-> ERROR_SUCCESS],
     [text |-> <<72>>, slack |-> 0, st1 |-> ERROR_MORE_DATA, st2 |-> 1603]}

\* what a call through a dead context may hand back to the engine
WildReturns == {7}

RECURSIVE Join_trailing(_, _)
\* a join that ends every token, the last one included, with the separator
Join_trailing(tokens, i) ==
    IF i > Len(tokens) THEN <<>>
    ELSE tokens[i] \o <<32>> \o Join_trailing(tokens, i + 1)

RECURSIVE Join(_, _)
\* Vec<String>::join(" ")
Join(tokens, i) ==
    IF i > Len(tokens) THEN <<>>
    ELSE IF i = Len(tokens) THEN tokens[i]
    ELSE tokens[i] \o <<32>> \o Join(tokens, i + 1)

command_line == Join(properties, 1)

\* main() not started: no command line
NoArgs == [path |-> [name |-> <<>>, exists |-> FALSE], log |-> NoLog,
           properties |-> <<>>]

NoHandler == [proc |-> FALSE, context |-> "", filter |-> 0]

\* std::ptr::null_mut()
null_mut == "null"

\* fn MsiSetExternalUIRecord(.., previous_handler): what the call hands back
\* through previous_handler; the engine stores its existing handler only
\* behind a pointer that is not null
MsiSetExternalUIRecord_previous(existing, previous_handler_ptr) ==
    IF previous_handler_ptr = null_mut THEN NoHandler ELSE existing

\* install() called with no handler registered, or with one the caller
\* registered for error messages
ExistingHandlers ==
    {NoHandler, [proc |-> TRUE, context |-> "caller", filter |-> MessageType.Error]}
Idle == [stage |-> "idle", h |-> 0, cat |-> 0, e |-> <<>>]

Init ==
    /\ path \in Paths
    /\ log \in Logs
    /\ properties \in PropertyLists
    /\ pc = "set_internal_ui"
    /\ result = Pending
    /\ events = <<>>
    /\ frameLive = FALSE
    /\ logStatus = -1
    /\ regStatus = -1
    /\ existingHandler \in ExistingHandlers
    /\ engineHandler = existingHandler
    /\ previous_handler = NoHandler
    /\ installArgs = <<>>
    /\ installRet = -1
    /\ cb = Idle
    /\ emitted = <<>>
    /\ stdout = <<>>
    /\ nextHandle = 1
    /\ rField = <<>>
    /\ rOp = "none"
    /\ rIn = <<>>
    /\ rOut = <<>>
    /\ rCalls = <<>>
    /\ argv = NoArgs
    /\ args = NoArgs
    /\ mainPc = "not_run"
    /\ exit = Pending

----------------------------------------------------------------------------
(* install() and the functions it calls. *)

\* ffi::set_internal_ui(ui): MsiSetInternalUI, no status to check
set_internal_ui ==
    /\ pc = "set_internal_ui"
    /\ events' = Append(events, Call("MsiSetInternalUI", 0, 0, 0))
    /\ pc' = IF log.some THEN "enable_log" ELSE "set_external_handler"
    /\ UNCHANGED <<path, log, properties, result, frameLive, logStatus, regStatus,
                   engineHandler, previous_handler, existingHandler, installArgs, installRet, cb, emitted,
                   stdout, nextHandle, recVars, cliVars>>

\* enable_log with a failed MsiEnableLog tried a second time
enable_log_retry ==
    /\ pc = "enable_log"
    /\ IF HasNul(log.v)
       THEN /\ result' = Err(Error_from_NulError)
            /\ pc' = "done"
            /\ UNCHANGED <<events, logStatus>>
       ELSE \E st \in EngineStatuses :
            /\ events' = Append(events, Call("MsiEnableLog", 0, 0, VERBOSE))
            /\ logStatus' = st
            /\ IF st = ERROR_SUCCESS
               THEN pc' = "set_external_handler" /\ UNCHANGED result
               ELSE IF logStatus = -1
               THEN pc' = "enable_log" /\ UNCHANGED result
               ELSE pc' = "done" /\ result' = Err(Error_from_u32(st))
    /\ UNCHANGED <<path, log, properties, frameLive, regStatus,
                   engineHandler, previous_handler, existingHandler, installArgs, installRet, cb, emitted,
                   stdout, nextHandle, recVars, cliVars>>

\* enable_log with the Result of ffi::enable_log dropped (no `?`)
enable_log_ignored ==
    /\ pc = "enable_log"
    /\ IF HasNul(log.v)
       THEN /\ pc' = "set_external_handler"
            /\ UNCHANGED <<events, logStatus>>
       ELSE \E st \in EngineStatuses :
            /\ events' = Append(events, Call("MsiEnableLog", 0, 0, VERBOSE))
            /\ logStatus' = st
            /\ pc' = "set_external_handler"
    /\ UNCHANGED <<path, log, properties, result, frameLive, regStatus,
                   engineHandler, previous_handler, existingHandler, installArgs, installRet, cb, emitted,
                   stdout, nextHandle, recVars, cliVars>>

\* if let Some(log) = log { ffi::enable_log(log.as_str())?; }
enable_log ==
    /\ pc = "enable_log"
    /\ IF HasNul(log.v)
       THEN /\ result' = Err(Error_from_NulError)
            /\ pc' = "done"
            /\ UNCHANGED <<events, logStatus>>
       ELSE \E st \in EngineStatuses :
            /\ events' = Append(events, Call("MsiEnableLog", 0, 0, VERBOSE))
            /\ logStatus' = st
            /\ IF st = ERROR_SUCCESS
               THEN pc' = "set_external_handler" /\ UNCHANGED result
               ELSE pc' = "done" /\ result' = Err(Error_from_u32(st))
    /\ UNCHANGED <<path, log, properties, frameLive, regStatus,
                   engineHandler, previous_handler, existingHandler, installArgs, installRet, cb, emitted,
                   stdout, nextHandle, recVars, cliVars>>

\* ffi::set_external_handler(closure) up to the return of
\* MsiSetExternalUIRecord: handler and context are locals of this call, the
\* engine keeps proc, the filter and the address of context
set_external_handler ==
    /\ pc = "set_external_handler"
    /\ frameLive' = TRUE
    /\ \E st \in EngineStatuses :
        /\ events' = Append(events, Call("MsiSetExternalUIRecord", 0, 0, filter))
        /\ regStatus' = st
        /\ engineHandler' =
             IF st = ERROR_SUCCESS
             THEN [proc |-> TRUE, context |-> "set_external_handler", filter |-> filter]
             ELSE engineHandler
    /\ previous_handler' = MsiSetExternalUIRecord_previous(engineHandler, null_mut)
    /\ pc' = "set_external_handler_ret"
    /\ UNCHANGED <<path, log, properties, result, logStatus, installArgs, installRet,
                   cb, emitted, stdout, nextHandle, existingHandler, recVars, cliVars>>

\* set_external_handler_ret with the registration status dropped
set_external_handler_ret_unchecked ==
    /\ pc = "set_external_handler_ret"
    /\ frameLive' = FALSE
    /\ pc' = "install_package"
    /\ UNCHANGED <<path, log, properties, result, events, logStatus, regStatus,
                   engineHandler, previous_handler, existingHandler, installArgs, installRet, cb, emitted,
                   stdout, nextHandle, recVars, cliVars>>

\* set_external_handler returns: its locals (context, handler) go out of
\* scope; install() applies `?` to the Result
set_external_handler_ret ==
    /\ pc = "set_external_handler_ret"
    /\ frameLive' = FALSE
    /\ IF regStatus # ERROR_SUCCESS
       THEN pc' = "done" /\ result' = Err(Error_from_u32(regStatus))
       ELSE pc' = "install_package" /\ UNCHANGED result
    /\ UNCHANGED <<path, log, properties, events, logStatus, regStatus, engineHandler, previous_handler, existingHandler,
                   installArgs, installRet, cb, emitted, stdout, nextHandle,
                   recVars, cliVars>>

\* install_package converting only the path with CString::new(...)?
install_package_path_only ==
    /\ pc = "install_package"
    /\ IF HasNul(path)
       THEN /\ result' = Err(Error_from_NulError)
            /\ pc' = "done"
            /\ UNCHANGED <<events, installArgs>>
       ELSE /\ events' = Append(events, Call("MsiInstallProduct", 0, 0, 0))
            /\ installArgs' = <<path, command_line>>
            /\ pc' = "MsiInstallProduct"
            /\ UNCHANGED result
    /\ UNCHANGED <<path, log, properties, frameLive, logStatus, regStatus,
                   engineHandler, previous_handler, existingHandler, installRet, cb, emitted, stdout,
                   nextHandle, recVars, cliVars>>

\* ffi::install_package(path, command_line) up to the call of
\* MsiInstallProduct
install_package ==
    /\ pc = "install_package"
    /\ IF HasNul(path) \/ HasNul(command_line)
       THEN /\ result' = Err(Error_from_NulError)
            /\ pc' = "done"
            /\ UNCHANGED <<events, installArgs>>
       ELSE /\ events' = Append(events, Call("MsiInstallProduct", 0, 0, 0))
            /\ installArgs' = <<path, command_line>>
            /\ pc' = "MsiInstallProduct"
            /\ UNCHANGED result
    /\ UNCHANGED <<path, log, properties, frameLive, logStatus, regStatus,
                   engineHandler, previous_handler, existingHandler, installRet, cb, emitted, stdout,
                   nextHandle, recVars, cliVars>>

\* the engine, inside MsiInstallProduct, emits a message: it creates the
\* record and calls the registered proc(context, message, handle)
MsiInstallProduct_message ==
    /\ pc = "MsiInstallProduct"
    /\ cb.stage = "idle"
    /\ engineHandler.proc
    /\ Len(emitted) < MaxMessages
    /\ \E cat \in EmittedTypes, e \in FormatBehaviours :
        /\ cb' = [stage |-> "entered", h |-> nextHandle, cat |-> cat, e |-> e]
        /\ emitted' = Append(emitted, [h |-> nextHandle, cat |-> cat, e |-> e])
    /\ nextHandle' = nextHandle + 1
    /\ events' = Append(events, Call("proc", nextHandle, 0, 0))
    /\ UNCHANGED <<path, log, properties, pc, result, frameLive, logStatus, regStatus,
                   engineHandler, previous_handler, existingHandler, installArgs, installRet, stdout, recVars, cliVars>>

\* the closure install() passes: timestamp, println!("{:?} ({:?}) {}", now,
\* message, record), HandlerResult::Default.  The timestamp is not modelled.
handler(message, h, e) ==
    LET d == Record_fmt(h, e)
    IN  [calls |-> <<Call("handler", h, 0, 0)>> \o d.calls
                     \o <<Call("handler_ret", h, 0, HandlerResult.Default)>>,
         line |-> [cat |-> message, text |-> d.text],
         ret |-> HandlerResult.Default]

\* extern "C" fn proc: copy the Context out of the pointer, wrap the handle
\* as an owning Record, call the handler, drop the Record, return.
\* While the context's frame is live the handler runs.  With the frame gone
\* the copy reads dead stack memory: the build may find the old bytes (the
\* handler runs all the same), or other bytes (a wild call that returns
\* something, or one that ends the process).
proc ==
    /\ cb.stage = "entered"
    /\ \/ /\ LET r == handler(cb.cat, cb.h, cb.e)
             IN  /\ stdout' = Append(stdout, r.line)
                 /\ events' = events \o r.calls \o OwnedMsiHandle_drop(cb.h)
                                \o <<Call("proc_ret", cb.h, 0, r.ret)>>
          /\ UNCHANGED pc
       \/ /\ ~frameLive
          /\ \E w \in WildReturns :
               events' = events \o OwnedMsiHandle_drop(cb.h)
                           \o <<Call("proc_ret", cb.h, 0, w)>>
          /\ UNCHANGED <<stdout, pc>>
       \/ /\ ~frameLive
          /\ pc' = "crashed"
          /\ UNCHANGED <<stdout, events>>
    /\ cb' = Idle
    /\ UNCHANGED <<path, log, properties, result, frameLive, logStatus, regStatus,
                   engineHandler, previous_handler, existingHandler, installArgs, installRet, emitted,
                   nextHandle, recVars, cliVars>>

\* install_package_ret with every return code mapped to Ok(())
install_package_ret_ok ==
    /\ pc = "MsiInstallProduct"
    /\ cb.stage = "idle"
    /\ \E code \in EngineStatuses :
        /\ installRet' = code
        /\ result' = Ok(<<>>)
    /\ pc' = "done"
    /\ UNCHANGED <<path, log, properties, events, frameLive, logStatus,
                   regStatus, engineHandler, previous_handler, existingHandler, installArgs, cb, emitted, stdout,
                   nextHandle, recVars, cliVars>>

\* install_package_ret followed by a second registration that puts back
\* the handler handed back by the first
install_package_ret_restores ==
    /\ pc = "MsiInstallProduct"
    /\ cb.stage = "idle"
    /\ \E code \in EngineStatuses :
        /\ installRet' = code
        /\ result' = IF code = ERROR_SUCCESS THEN Ok(<<>>)
                     ELSE Err(Error_from_u32(code))
    /\ events' = Append(events, Call("MsiSetExternalUIRecord", 0, 0, filter))
    /\ engineHandler' = previous_handler
    /\ pc' = "done"
    /\ UNCHANGED <<path, log, properties, frameLive, logStatus, regStatus,
                   previous_handler, existingHandler, installArgs, cb, emitted,
                   stdout, nextHandle, recVars, cliVars>>

\* MsiInstallProduct returns; install_package maps the code:
\* ERROR_SUCCESS => Ok(()), err => Err(Error::from(err))
install_package_ret ==
    /\ pc = "MsiInstallProduct"
    /\ cb.stage = "idle"
    /\ \E code \in EngineStatuses :
        /\ installRet' = code
        /\ result' = IF code = ERROR_SUCCESS THEN Ok(<<>>)
                     ELSE Err(Error_from_u32(code))
    /\ pc' = "done"
    /\ UNCHANGED <<path, log, properties, events, frameLive, logStatus, regStatus,
                   engineHandler, previous_handler, existingHandler, installArgs, cb, emitted, stdout,
                   nextHandle, recVars, cliVars>>

Next ==
    \/ set_internal_ui
    \/ enable_log
    \/ set_external_handler
    \/ set_external_handler_ret
    \/ install_package
    \/ MsiInstallProduct_message
    \/ proc
    \/ install_package_ret

Spec == Init /\ [][Next]_vars

----------------------------------------------------------------------------
(* RecSpec: the Record accessors applied to one engine field of the Record  *)
(* with handle 1.                                                           *)

\* 'H', and the two bytes of U+00E9, each of which alone is not UTF-8
ByteAlphabet == {72, 195, 169}

RECURSIVE TextsOfLen(_)
TextsOfLen(n) ==
    IF n = 0 THEN {<<>>}
    ELSE {Append(t, b) : t \in TextsOfLen(n - 1), b \in ByteAlphabet}

Texts == UNION {TextsOfLen(n) : n \in 0..MaxLen}

\* raw i32 values MsiRecordGetInteger may return
RawInts == {MSI_NULL_INTEGER, MSI_NULL_INTEGER + 1, -1, 0, 1, 2147483647}

\* raw Win32Bool values MsiRecordIsNull may return
RawBools == {0, 1, -1}

\* field indices queried (0 is the template string)
FieldIndices == {0, 1}

RecInit ==
    /\ path = <<112>>
    /\ log = NoLog
    /\ properties = <<>>
    /\ pc = "not_called"
    /\ result = Pending
    /\ events = <<>>
    /\ frameLive = FALSE
    /\ logStatus = -1
    /\ regStatus = -1
    /\ existingHandler = NoHandler
    /\ engineHandler = NoHandler
    /\ previous_handler = NoHandler
    /\ installArgs = <<>>
    /\ installRet = -1
    /\ cb = Idle
    /\ emitted = <<>>
    /\ stdout = <<>>
    /\ nextHandle = 1
    /\ rField \in [text : Texts, int : RawInts, null : RawBools]
    /\ rOp = "none"
    /\ rIn = <<>>
    /\ rOut = <<>>
    /\ rCalls = <<>>
    /\ argv = NoArgs
    /\ args = NoArgs
    /\ mainPc = "not_run"
    /\ exit = Pending

\* the engine's possible behaviours for a retrieval of the field's text
Behaviours ==
    [text : {rField.text}, slack : 0..MaxSlack,
     st1 : {ERROR_MORE_DATA, ERROR_SUCCESS, 6}, st2 : {ERROR_SUCCESS, 1603}]

Record_string_data ==
    /\ \E field \in FieldIndices, e \in Behaviours :
        LET r == string_data(1, field, e)
        IN  /\ rOp' = "string_data"
            /\ rIn' = [field |-> field, e |-> e]
            /\ rOut' = r
            /\ rCalls' = r.calls
    /\ UNCHANGED <<rField, installVars, cliVars>>

Record_format_text ==
    /\ \E e \in Behaviours :
        LET r == format_text(1, e)
        IN  /\ rOp' = "format_text"
            /\ rIn' = [field |-> 0, e |-> e]
            /\ rOut' = r
            /\ rCalls' = r.calls
    /\ UNCHANGED <<rField, installVars, cliVars>>

Record_integer_data ==
    /\ \E field \in FieldIndices \ {0} :
        /\ rOp' = "integer_data"
        /\ rIn' = [field |-> field, e |-> <<>>]
        /\ rOut' = integer_data(rField)
        /\ rCalls' = Record_deref(1)
                       \o <<Call("MsiRecordGetInteger", 1, field, 0)>>
    /\ UNCHANGED <<rField, installVars, cliVars>>

Record_is_null ==
    /\ \E field \in FieldIndices \ {0} :
        /\ rOp' = "is_null"
        /\ rIn' = [field |-> field, e |-> <<>>]
        /\ rOut' = is_null(rField)
        /\ rCalls' = Record_deref(1)
                       \o <<Call("MsiRecordIsNull", 1, field, 0)>>
    /\ UNCHANGED <<rField, installVars, cliVars>>

\* Record::field_count(): the engine's count, as is
Record_field_count ==
    /\ \E n \in 0..2 :
        /\ rOp' = "field_count"
        /\ rIn' = [field |-> 0, e |-> <<>>]
        /\ rOut' = n
        /\ rCalls' = Record_deref(1)
                       \o <<Call("MsiRecordGetFieldCount", 1, 0, 0)>>
    /\ UNCHANGED <<rField, installVars, cliVars>>

RecNext ==
    \/ Record_string_data
    \/ Record_format_text
    \/ Record_integer_data
    \/ Record_is_null
    \/ Record_field_count

RecSpec == RecInit /\ [][RecNext]_vars

----------------------------------------------------------------------------
(* CliSpec: the msitrace binary (src/bin/msitrace.rs).  main() parses the   *)
(* command line, checks the package path and runs install().                 *)

\* std::io::Error::new(kind, msg), and clap's Error::raw(kind, msg)
io_Error(kind, msg) == [kind |-> kind, code |-> 0, inner |-> msg]
clap_Error_raw(kind, msg) == [kind |-> kind, code |-> 0, inner |-> msg]

RECURSIVE match_indices_count(_, _, _)
\* value.match_indices(c).count(), scanning from position i
match_indices_count(value, c, i) ==
    IF i > Len(value) THEN 0
    ELSE (IF value[i] = c THEN 1 ELSE 0) + match_indices_count(value, c, i + 1)

\* validate_property accepting any token that holds at least one '='
validate_property_some_eq(value) ==
    IF value = <<>>
    THEN Err(clap_Error_raw("ValueValidation", "property cannot be empty"))
    ELSE IF match_indices_count(value, 61, 1) < 1
    THEN Err(clap_Error_raw("ValueValidation", "requires PROP= or PROP=VALUE"))
    ELSE Ok(value)

\* fn validate_property(value: &str) -> clap::error::Result<String>
validate_property(value) ==
    IF value = <<>>
    THEN Err(clap_Error_raw("ValueValidation", "property cannot be empty"))
    ELSE IF match_indices_count(value, 61, 1) # 1
    THEN Err(clap_Error_raw("ValueValidation", "requires PROP= or PROP=VALUE"))
    ELSE Ok(value)

\* "p" existing and "q" missing
ArgPaths == {[name |-> <<112>>, exists |-> TRUE],
             [name |-> <<113>>, exists |-> FALSE]}

\* no --log, and --log l
ArgLogs == {NoLog, [some |-> TRUE, v |-> <<108>>]}

\* the property tokens after `--`: none, A=1 B=2, A, A=1=2, the empty token,
\* A=, and A= followed by A=1=2
ArgPropertyLists ==
    {<<>>,
     <<(<<65, 61, 49>>), (<<66, 61, 50>>)>>,
     <<(<<65>>)>>,
     <<(<<65, 61, 49, 61, 50>>)>>,
     <<(<<>>)>>,
     <<(<<65, 61>>)>>,
     <<(<<65, 61>>), (<<65, 61, 49, 61, 50>>)>>}

\* the verbatim prefix \\?\ of a canonical Windows path
VerbatimPrefix == <<92, 92, 63, 92>>

\* Path::canonicalize: the absolute form of an existing path, with or without
\* the verbatim prefix, or the operating system's error
canonicalize(p) ==
    IF p.exists
    THEN {Ok(VerbatimPrefix \o p.name), Ok(p.name),
          Err(io_Error("PermissionDenied", "os"))}
    ELSE {Err(io_Error("NotFound", "os"))}

\* str::strip_prefix
strip_prefix(s, prefix) ==
    IF /\ Len(prefix) <= Len(s)
       /\ \A i \in 1..Len(prefix) : s[i] = prefix[i]
    THEN [some |-> TRUE, v |-> SubSeq(s, Len(prefix) + 1, Len(s))]
    ELSE [some |-> FALSE, v |-> <<>>]

\* std::env::current_dir(): "c", or the operating system's error
current_dir == {Ok(<<99>>), Err(io_Error("NotFound", "os"))}

\* PathBuf::join of a relative path: base, separator, path
PathBuf_join(base, p) == base \o <<92>> \o p

CliInit ==
    /\ argv \in [path : ArgPaths, log : ArgLogs, properties : ArgPropertyLists]
    /\ args = NoArgs
    /\ mainPc = "Args_parse"
    /\ exit = Pending
    /\ path = <<>>
    /\ log = NoLog
    /\ properties = <<>>
    /\ pc = "not_called"
    /\ result = Pending
    /\ events = <<>>
    /\ frameLive = FALSE
    /\ logStatus = -1
    /\ regStatus = -1
    /\ existingHandler = NoHandler
    /\ engineHandler = NoHandler
    /\ previous_handler = NoHandler
    /\ installArgs = <<>>
    /\ installRet = -1
    /\ cb = Idle
    /\ emitted = <<>>
    /\ stdout = <<>>
    /\ nextHandle = 1
    /\ rField = <<>>
    /\ rOp = "none"
    /\ rIn = <<>>
    /\ rOut = <<>>
    /\ rCalls = <<>>

\* Args::parse(): every token after `--` goes through validate_property; the
\* first rejected token ends the process with clap's error
Args_parse ==
    /\ mainPc = "Args_parse"
    /\ LET parsed == [i \in 1..Len(argv.properties) |->
                         validate_property(argv.properties[i])]
           bad == {i \in 1..Len(parsed) : parsed[i].tag = "Err"}
       IN  IF bad # {}
           THEN /\ exit' = parsed[CHOOSE i \in bad : \A j \in bad : i <= j]
                /\ mainPc' = "exited"
                /\ UNCHANGED args
           ELSE /\ args' = [path |-> argv.path, log |-> argv.log,
                            properties |-> [i \in 1..Len(parsed) |-> parsed[i].val]]
                /\ mainPc' = "main"
                /\ UNCHANGED exit
    /\ UNCHANGED <<argv, installVars, recVars>>

\* main() calling install with the path as given: no exists(), no canonicalize()
main_unchecked ==
    /\ mainPc = "main"
    /\ \E d \in current_dir :
         IF args.log.some /\ d.tag = "Err"
         THEN /\ exit' = d
              /\ mainPc' = "exited"
              /\ UNCHANGED <<path, log, properties, pc>>
         ELSE /\ path' = args.path.name
              /\ log' = IF args.log.some
                        THEN [some |-> TRUE, v |-> PathBuf_join(d.val, args.log.v)]
                        ELSE NoLog
              /\ properties' = args.properties
              /\ pc' = "set_internal_ui"
              /\ mainPc' = "install"
              /\ UNCHANGED exit
    /\ UNCHANGED <<argv, args, result, events, frameLive, logStatus, regStatus,
                   engineHandler, previous_handler, existingHandler, installArgs, installRet, cb, emitted,
                   stdout, nextHandle, recVars>>

\* main() up to the call of msitrace::install
main ==
    /\ mainPc = "main"
    /\ IF ~args.path.exists
       THEN /\ exit' = Err(io_Error("NotFound", "test"))
            /\ mainPc' = "exited"
            /\ UNCHANGED <<path, log, properties, pc>>
       ELSE \E c \in canonicalize(args.path), d \in current_dir :
            IF c.tag = "Err"
            THEN /\ exit' = c
                 /\ mainPc' = "exited"
                 /\ UNCHANGED <<path, log, properties, pc>>
            ELSE IF args.log.some /\ d.tag = "Err"
            THEN /\ exit' = d
                 /\ mainPc' = "exited"
                 /\ UNCHANGED <<path, log, properties, pc>>
            ELSE /\ path' = LET s == strip_prefix(c.val, VerbatimPrefix)
                            IN  IF s.some THEN s.v ELSE c.val
                 /\ log' = IF args.log.some
                           THEN [some |-> TRUE,
                                 v |-> PathBuf_join(d.val, args.log.v)]
                           ELSE NoLog
                 /\ properties' = args.properties
                 /\ pc' = "set_internal_ui"
                 /\ mainPc' = "install"
                 /\ UNCHANGED exit
    /\ UNCHANGED <<argv, args, result, events, frameLive, logStatus, regStatus,
                   engineHandler, previous_handler, existingHandler, installArgs, installRet, cb, emitted,
                   stdout, nextHandle, recVars>>

\* msitrace::install(...)?; Ok(())
main_ret ==
    /\ mainPc = "install"
    /\ pc = "done"
    /\ exit' = IF result.tag = "Err" THEN Err(result.err) ELSE Ok(<<>>)
    /\ mainPc' = "exited"
    /\ UNCHANGED <<argv, args, installVars, recVars>>

CliNext ==
    \/ Args_parse
    \/ main
    \/ main_ret
    \/ Next

CliSpec == CliInit /\ [][CliNext]_vars

----------------------------------------------------------------------------
(* Properties of a run of install() (checked under Spec). *)

SetupCalls ==
    {"MsiSetInternalUI", "MsiEnableLog", "MsiSetExternalUIRecord",
     "MsiInstallProduct"}

IsSetupCall(c) == c.ev \in SetupCalls

\* the names of the setup calls issued so far, in order
NativeCalls ==
    LET cs == SelectSeq(events, IsSetupCall)
    IN  [i \in 1..Len(cs) |-> cs[i].ev]

Issued(ev) == \E i \in 1..Len(events) : events[i].ev = ev

IsPrefix(a, b) == Len(a) <= Len(b) /\ \A i \in 1..Len(a) : a[i] = b[i]

\* SetUILevel -> [EnableLog] -> RegisterBridge -> Install
ExpectedCalls ==
    <<"MsiSetInternalUI">>
      \o (IF log.some THEN <<"MsiEnableLog">> ELSE <<>>)
      \o <<"MsiSetExternalUIRecord", "MsiInstallProduct">>

IsEngineError(r, code) ==
    r.tag = "Err" /\ r.err.kind = "ErrorCode" /\ r.err.code = code

\* C1: the setup calls issued so far are always an initial part of
\* SetUILevel, EnableLog (iff a log path was given), RegisterBridge, Install:
\* none repeated, none out of order, none retried; a run that returns success
\* or reaches the Install call has issued every one of them.
C1_LinearOrder ==
    /\ IsPrefix(NativeCalls, ExpectedCalls)
    /\ (result.tag = "Ok" \/ Issued("MsiInstallProduct"))
          => NativeCalls = ExpectedCalls

\* a run with a log path in which all four calls were issued and the Install
\* call failed, and nothing was issued again
C1_Witness ==
    /\ pc = "done"
    /\ log.some
    /\ result.tag = "Err"
    /\ NativeCalls = <<"MsiSetInternalUI", "MsiEnableLog",
                       "MsiSetExternalUIRecord", "MsiInstallProduct">>

\* C2: once MsiEnableLog has returned a non-success status the bridge is
\* never registered and the Install call never issued, and once
\* MsiSetExternalUIRecord has returned a non-success status the Install call
\* is never issued; in both cases install returns the engine-code error
\* carrying that status.
C2_SetupFailureStops ==
    /\ logStatus > 0 =>
          /\ ~Issued("MsiSetExternalUIRecord")
          /\ ~Issued("MsiInstallProduct")
          /\ pc = "done"
          /\ IsEngineError(result, logStatus)
    /\ regStatus > 0 =>
          /\ ~Issued("MsiInstallProduct")
          /\ pc \in {"set_external_handler_ret", "done"}
          /\ (pc = "done" => IsEngineError(result, regStatus))

\* logging was enabled, then registration failed and install returned
C2_Witness ==
    /\ pc = "done"
    /\ logStatus = ERROR_SUCCESS
    /\ regStatus = 1603
    /\ IsEngineError(result, 1603)

\* C3: when install has returned after the Install call was issued, the
\* result is success iff MsiInstallProduct returned zero, and for a non-zero
\* code it is the engine-code error carrying exactly that code.
C3_MapResult ==
    (pc = "done" /\ Issued("MsiInstallProduct")) =>
        /\ installRet >= 0
        /\ (result.tag = "Ok" <=> installRet = 0)
        /\ (installRet # 0 => IsEngineError(result, installRet))

\* the Install call returned 1603 and install returned that code
C3_Witness ==
    /\ pc = "done"
    /\ installRet = 1603
    /\ IsEngineError(result, 1603)
    /\ Len(emitted) > 0

\* C4: whenever the engine has entered the trampoline, the context whose
\* address it was given at registration (a local of set_external_handler,
\* holding a reference to the handler, another local) is still live.
C4_ContextLive ==
    cb.stage = "entered" =>
        /\ engineHandler.context = "set_external_handler"
        /\ frameLive

RecordOps ==
    {"MsiRecordGetFieldCount", "MsiRecordGetString", "MsiRecordGetInteger",
     "MsiRecordIsNull", "MsiFormatRecord"}

\* positions of the MsiCloseHandle calls on handle h
Closes(h) ==
    {i \in 1..Len(events) : events[i].ev = "MsiCloseHandle" /\ events[i].h = h}

\* the trampoline invocation that was handed h has returned to the engine
Returned(h) ==
    \E i \in 1..Len(events) : events[i].ev = "proc_ret" /\ events[i].h = h

\* C5: a record handle handed to the trampoline is never closed twice; once
\* its invocation has returned it has been closed exactly once, and that
\* close is the last step before the return: every record operation on the
\* handle and the handler's call and return come before it (so borrowing the
\* handle for an operation closed nothing).
C5_HandleReleasedOnce ==
    \A h \in 1..(nextHandle - 1) :
        /\ Cardinality(Closes(h)) <= 1
        /\ Returned(h) => Cardinality(Closes(h)) = 1
        /\ \A i \in Closes(h) :
             /\ \A j \in 1..Len(events) :
                  (events[j].h = h
                     /\ events[j].ev \in RecordOps \cup {"handler", "handler_ret"})
                  => j < i
             /\ i < Len(events)
             /\ events[i + 1].ev = "proc_ret"
             /\ events[i + 1].h = h

\* an invocation whose handler ran both formatting calls on the handle has
\* returned, and the handle was closed after them
C5_Witness ==
    \E h \in 1..(nextHandle - 1) :
        /\ Returned(h)
        /\ Cardinality(Closes(h)) = 1
        /\ \E j \in 1..Len(events) :
             events[j].ev = "MsiFormatRecord" /\ events[j].h = h /\ events[j].n > 0

\* the twelve values of enum MessageType
CategoryValues == {MessageType[k] : k \in DOMAIN MessageType}

\* bit b of x (x >= 0, b <= 30)
Bit(x, b) == (x \div (2 ^ b)) % 2 = 1

\* C9: the filter handed to MsiSetExternalUIRecord has exactly the bits set
\* that some category constant has set; the expression that builds it names
\* each of the twelve constants once; the constants are pairwise distinct and
\* have no bit set below bit 24; every registration passes the same mask.
C9_FilterMask ==
    /\ Len(filter_operands) = 12
    /\ {filter_operands[i] : i \in 1..Len(filter_operands)} = CategoryValues
    /\ Cardinality(CategoryValues) = 12
    /\ \A c \in CategoryValues : c >= 0 /\ c % (2 ^ 24) = 0 /\ c \div (2 ^ 24) < 256
    /\ \A i \in 1..Len(events) :
         events[i].ev = "MsiSetExternalUIRecord" =>
            /\ events[i].n >= 0
            /\ \A b \in 0..30 :
                 Bit(events[i].n, b) <=> \E c \in CategoryValues : Bit(c, b)
    /\ regStatus = ERROR_SUCCESS =>
         \A b \in 0..30 :
            Bit(engineHandler.filter, b) <=> \E c \in CategoryValues : Bit(c, b)

\* the bridge is registered with mask 0x1F000000
C9_Witness ==
    /\ engineHandler.proc
    /\ engineHandler.filter = 520093696
    /\ Issued("MsiSetExternalUIRecord")

\* the text the engine formats for a record: its template text when both
\* formatting calls go the documented way and the text decodes, the
\* placeholder otherwise
RecordText(e) ==
    IF e.st1 = ERROR_MORE_DATA /\ e.st2 = ERROR_SUCCESS /\ IsUtf8(e.text)
    THEN e.text ELSE Placeholder

\* messages whose trampoline invocation is over
Handled == IF cb.stage = "entered" THEN Len(emitted) - 1 ELSE Len(emitted)

\* C10: standard output holds exactly one line per message handed to the
\* bridge, in emission order, each with that message's category and record
\* text, and no other line.
C10_OneLinePerMessage ==
    /\ Len(stdout) = Handled
    /\ \A i \in 1..Len(stdout) :
         /\ i <= Len(emitted)
         /\ stdout[i].cat = emitted[i].cat
         /\ stdout[i].text = RecordText(emitted[i].e)

----------------------------------------------------------------------------
(* Properties of the Record accessors (checked under RecSpec). *)

Retrieved == rOp \in {"string_data", "format_text"} /\ rOut.res.tag = "Ok"

\* C6: a text returned by string_data or format_text is exactly the first
\* final_len bytes of the buffer the second call filled, final_len being the
\* length the engine wrote on the second call; when that length is at most
\* the length the first call reported, the text holds no terminator byte and
\* equals the field's text.
C6_TruncatedToFinalLength ==
    Retrieved =>
        /\ rOut.second
        /\ rOut.final_len <= Len(rOut.buf)
        /\ rOut.res.val = SubSeq(rOut.buf, 1, rOut.final_len)
        /\ rOut.final_len <= Len(rField.text) + rIn.e.slack =>
             /\ \A i \in 1..Len(rOut.res.val) : rOut.res.val[i] # 0
             /\ rOut.res.val = rField.text

\* string_data returned a non-empty text although the first call had
\* reported more characters than the second wrote
C6_Witness ==
    /\ rOp = "string_data"
    /\ rOut.res.tag = "Ok"
    /\ rIn.e.slack > 0
    /\ Len(rOut.res.val) = MaxLen
    /\ rOut.final_len < Len(rOut.buf) - 1

\* C7: integer_data returns absence iff the raw value is -2^31 and returns
\* every other raw value unchanged.
C7_SentinelExact ==
    rOp = "integer_data" =>
        /\ (rOut.some = FALSE) <=> (rField.int = -2147483647 - 1)
        /\ rField.int # -2147483647 - 1 => (rOut.some /\ rOut.v = rField.int)

\* the value next to the sentinel is returned as a number
C7_Witness ==
    /\ rOp = "integer_data"
    /\ rField.int = -2147483647
    /\ rOut = Some(-2147483647)

\* C8: is_null is the engine's flag (true iff non-zero) whatever the integer,
\* and integer_data's absence is decided by the integer whatever the flag.
C8_NullIndependent ==
    /\ rOp = "is_null" => (rOut = (rField.null # 0))
    /\ rOp = "integer_data" => (rOut.some <=> rField.int # MSI_NULL_INTEGER)

\* a field marked null that holds the sentinel reports null = true
C8_Witness ==
    /\ rOp = "is_null"
    /\ rField.null # 0
    /\ rField.int = MSI_NULL_INTEGER
    /\ rOut = TRUE

----------------------------------------------------------------------------
(* Further properties of a run of install() (checked under Spec). *)

\* C11 as stated: when install has returned an error, standard output
\* holds no message line.
C11_NoOutputOnFailure ==
    (pc = "done" /\ result.tag = "Err") => stdout = <<>>

\* C11 amended: a line is written only while the Install call is in
\* progress, after every setup step succeeded; so a run that returns an error
\* raised before the Install call was issued has written no line, and a
\* failed run that has written lines failed with the Install call's own
\* non-zero return code.
C11_OutputOnlyDuringInstall ==
    /\ stdout # <<>> =>
          /\ Issued("MsiInstallProduct")
          /\ logStatus \in {-1, ERROR_SUCCESS}
          /\ regStatus = ERROR_SUCCESS
    /\ (pc = "done" /\ result.tag = "Err" /\ ~Issued("MsiInstallProduct"))
          => stdout = <<>>
    /\ (pc = "done" /\ result.tag = "Err" /\ stdout # <<>>)
          => (installRet > 0 /\ IsEngineError(result, installRet))

\* the Install call failed after two message lines were written
C11_Witness ==
    /\ pc = "done"
    /\ IsEngineError(result, 1603)
    /\ installRet = 1603
    /\ Len(stdout) = 2

RECURSIVE TokenOffset(_, _)
\* where token k starts in the joined line: after the k-1 tokens before it
\* and one separator for each of them
TokenOffset(tokens, k) ==
    IF k = 1 THEN 0
    ELSE TokenOffset(tokens, k - 1) + Len(tokens[k - 1]) + 1

\* C14: the command line MsiInstallProduct receives holds the property tokens
\* in input order, each at its place, with exactly one space (byte 32)
\* between consecutive tokens and nothing before the first or after the last;
\* no tokens give the empty line and A=1, B=2 give "A=1 B=2"; the package
\* path it receives is the path install was called with.
C14_JoinedCommandLine ==
    installArgs # <<>> =>
        LET cl == installArgs[2]
            n == Len(properties)
        IN  /\ installArgs[1] = path
            /\ Len(cl) = IF n = 0 THEN 0
                         ELSE TokenOffset(properties, n) + Len(properties[n])
            /\ \A k \in 1..n :
                  SubSeq(cl, TokenOffset(properties, k) + 1,
                         TokenOffset(properties, k) + Len(properties[k]))
                     = properties[k]
            /\ \A k \in 2..n : cl[TokenOffset(properties, k)] = 32
            /\ properties = <<>> => cl = <<>>
            /\ properties = <<(<<65, 61, 49>>), (<<66, 61, 50>>)>>
                  => cl = <<65, 61, 49, 32, 66, 61, 50>>

\* the Install call was issued with "A=1 B=2"
C14_Witness ==
    /\ Issued("MsiInstallProduct")
    /\ properties = <<(<<65, 61, 49>>), (<<66, 61, 50>>)>>
    /\ installArgs = <<path, <<65, 61, 49, 32, 66, 61, 50>>>>

IsHandlerEntry(c) == c.ev = "handler"

\* the handler invocations so far, in order
HandlerEntries == SelectSeq(events, IsHandlerEntry)

\* C16: every invocation of the handler has written its line and returned;
\* the record text of the line is the formatted text when the first
\* formatting call answered more-data, the second success, and the bytes
\* decode, and the placeholder "(record)" in every other case.
C16_DisplayInfallible ==
    /\ Len(stdout) = Len(HandlerEntries)
    /\ \A k \in 1..Len(HandlerEntries) :
          LET h == HandlerEntries[k].h
              e == emitted[h].e
          IN  /\ stdout[k].cat = emitted[h].cat
              /\ stdout[k].text =
                    IF /\ e.st1 = ERROR_MORE_DATA
                       /\ e.st2 = ERROR_SUCCESS
                       /\ IsUtf8(e.text)
                    THEN e.text ELSE <<40, 114, 101, 99, 111, 114, 100, 41>>
              /\ \E i \in 1..Len(events) :
                    events[i] = Call("handler_ret", h, 0, HandlerResult.Default)

\* a record whose bytes do not decode was shown as "(record)", and the next
\* one, failing on its second call, too
C16_Witness ==
    /\ Len(stdout) = 2
    /\ Len(HandlerEntries) = 2
    /\ emitted[1].e.text = <<255>>
    /\ emitted[2].e.st2 = 1603
    /\ stdout[1].text = Placeholder
    /\ stdout[2].text = Placeholder

\* C17: every trampoline invocation that returned to the engine invoked
\* the handler exactly once, with the handle and category the engine passed,
\* and returned the integer of the disposition the handler gave, which for
\* install()'s handler is Default (0).
C17_ReturnIsDisposition ==
    \A i \in 1..Len(events) :
        events[i].ev = "proc_ret" =>
            LET h == events[i].h
                entries == {j \in 1..i : events[j] = Call("handler", h, 0, 0)}
                lines == {k \in 1..Len(HandlerEntries) : HandlerEntries[k].h = h}
            IN  /\ Cardinality(entries) = 1
                /\ \E j \in 1..i : events[j] = Call("handler_ret", h, 0, events[i].n)
                /\ events[i].n \in {HandlerResult.Default, HandlerResult.OK,
                                    HandlerResult.Cancel}
                /\ events[i].n = 0
                /\ \A k \in lines : stdout[k].cat = emitted[h].cat

\* the byte 0 occurs in s
Terminated(s) == 0 \in {s[i] : i \in 1..Len(s)}

\* the joined command line holds a byte 0: some token does
CommandLineTerminated ==
    \E k \in 1..Len(properties) : Terminated(properties[k])

\* C19: with a byte 0 in the log path MsiEnableLog is never issued and the
\* run ends in an error right after the UI level was set; with a byte 0 in
\* the package path or in a property token MsiInstallProduct is never issued
\* and the run ends in an error; the calls made before stay as they were: no
\* further call follows them, and a bridge that was registered is still
\* registered.
C19_EmbeddedTerminator ==
    /\ (log.some /\ Terminated(log.v)) =>
          /\ ~Issued("MsiEnableLog")
          /\ pc = "done" =>
                /\ result = Err(Error_from_NulError)
                /\ NativeCalls = <<"MsiSetInternalUI">>
    /\ (Terminated(path) \/ CommandLineTerminated) =>
          /\ ~Issued("MsiInstallProduct")
          /\ installArgs = <<>>
          /\ pc = "done" =>
                /\ result.tag = "Err"
                /\ regStatus = ERROR_SUCCESS =>
                      /\ result = Err(Error_from_NulError)
                      /\ NativeCalls = SubSeq(ExpectedCalls, 1, Len(ExpectedCalls) - 1)
                      /\ engineHandler =
                            [proc |-> TRUE, context |-> "set_external_handler",
                             filter |-> filter]

\* a byte 0 in the second property token: logging was enabled, the bridge
\* registered, and install returned without calling MsiInstallProduct
C19_Witness ==
    /\ ~Terminated(path)
    /\ CommandLineTerminated
    /\ logStatus = ERROR_SUCCESS
    /\ regStatus = ERROR_SUCCESS
    /\ pc = "done"
    /\ result = Err(Error_from_NulError)
    /\ engineHandler.proc
    /\ ~Issued("MsiInstallProduct")

\* the registration calls issued so far
Registrations ==
    {i \in 1..Len(events) : events[i].ev = "MsiSetExternalUIRecord"}

\* after a successful registration there has been no other registration
\* call, and the engine's handler is the bridge with the context given then
StillBridge ==
    regStatus = ERROR_SUCCESS =>
        /\ Cardinality(Registrations) = 1
        /\ engineHandler = [proc |-> TRUE, context |-> "set_external_handler",
                            filter |-> filter]

\* C20 as stated: a successful registration has handed back the handler the
\* engine had before it, and that handler is never put back: no further
\* registration call is issued and the bridge stays registered.
C20_ReturnedNotRestored ==
    /\ regStatus = ERROR_SUCCESS => previous_handler = existingHandler
    /\ StillBridge

\* C20 amended: registration asks for nothing back (the out-pointer it
\* passes is null), so the handler the engine had before is not known to the
\* run, whatever it was; it is never put back: no further registration call
\* is issued and the bridge stays registered up to and after install's return.
C20_NotObtainedNotRestored ==
    /\ previous_handler = NoHandler
    /\ StillBridge
    /\ (pc = "done" /\ regStatus = ERROR_SUCCESS /\ existingHandler.proc)
          => engineHandler # existingHandler

\* install returned a failure of the Install call; the handler the caller
\* had registered before is gone and was not handed back
C20_Witness ==
    /\ pc = "done"
    /\ regStatus = ERROR_SUCCESS
    /\ IsEngineError(result, 1603)
    /\ existingHandler.context = "caller"
    /\ previous_handler = NoHandler
    /\ engineHandler.context = "set_external_handler"

----------------------------------------------------------------------------
(* Properties of the command-line program (checked under CliSpec). *)

NotFoundTest == Err(io_Error("NotFound", "test"))

\* C12: when the package path does not exist, no native call is ever issued
\* (install is not even entered), and once the command line has been
\* accepted the process ends with the local not-found error.
C12_MissingPathNoNativeCall ==
    (mainPc # "not_run" /\ ~argv.path.exists) =>
        /\ events = <<>>
        /\ pc = "not_called"
        /\ mainPc # "install"
        /\ (mainPc = "exited" /\ exit.err.kind # "ValueValidation")
              => exit = NotFoundTest

\* a missing path with an accepted command line has ended the process
C12_Witness ==
    /\ ~argv.path.exists
    /\ argv.log.some
    /\ args.properties = <<(<<65, 61, 49>>), (<<66, 61, 50>>)>>
    /\ mainPc = "exited"
    /\ exit = NotFoundTest
    /\ events = <<>>

\* non-empty with exactly one '=' (byte 61)
OneEquals(t) == t # <<>> /\ Cardinality({i \in 1..Len(t) : t[i] = 61}) = 1

\* C13: the validator accepts a token iff it is non-empty and holds exactly
\* one '=', returning it unchanged; "A", "A=1=2" and "" are rejected, "A=" and
\* "A=1" accepted; the command line is accepted iff every token is, and then
\* the parsed properties are the tokens as given.
C13_ValidatorOneEquals ==
    /\ \A i \in 1..Len(argv.properties) :
          LET t == argv.properties[i]
              r == validate_property(t)
          IN  /\ r.tag = "Ok" <=> OneEquals(t)
              /\ r.tag = "Ok" => r.val = t
    /\ validate_property(<<65>>).tag = "Err"
    /\ validate_property(<<65, 61, 49, 61, 50>>).tag = "Err"
    /\ validate_property(<<>>).tag = "Err"
    /\ validate_property(<<65, 61>>) = Ok(<<65, 61>>)
    /\ validate_property(<<65, 61, 49>>) = Ok(<<65, 61, 49>>)
    /\ mainPc \in {"main", "install", "exited"} =>
          LET rejected == \E i \in 1..Len(argv.properties) :
                              ~OneEquals(argv.properties[i])
          IN  IF rejected
              THEN /\ mainPc = "exited"
                   /\ exit.tag = "Err"
                   /\ exit.err.kind = "ValueValidation"
                   /\ args = NoArgs
                   /\ pc = "not_called"
              ELSE /\ args.properties = argv.properties
                   /\ exit.err.kind # "ValueValidation"

\* "A=" was accepted and "A=1=2" after it rejected
C13_Witness ==
    /\ argv.properties = <<(<<65, 61>>), (<<65, 61, 49, 61, 50>>)>>
    /\ mainPc = "exited"
    /\ exit = Err(clap_Error_raw("ValueValidation", "requires PROP= or PROP=VALUE"))

----------------------------------------------------------------------------
(* Further properties of the Record accessors (checked under RecSpec). *)

\* C15: string_data and format_text issue exactly the calls of the
\* protocol on handle 1 and the field asked for: a first call with capacity 0;
\* on any first status other than more-data (success included) nothing more,
\* and the result is the error carrying that status; on more-data exactly one
\* second call, next in the sequence, with capacity the first call's reported
\* length + 1, whose non-success status is the error returned.
C15_TwoCallUnit ==
    rOp \in {"string_data", "format_text"} =>
        LET ev == IF rOp = "string_data" THEN "MsiRecordGetString"
                  ELSE "MsiFormatRecord"
            e == rIn.e
            first == Call(ev, 1, rIn.field, 0)
            second == Call(ev, 1, rIn.field, Len(e.text) + e.slack + 1)
        IN  /\ e.st1 # ERROR_MORE_DATA =>
                  /\ rCalls = <<first>>
                  /\ IsEngineError(rOut.res, e.st1)
            /\ e.st1 = ERROR_MORE_DATA =>
                  /\ rCalls = <<first, second>>
                  /\ e.st2 # ERROR_SUCCESS => IsEngineError(rOut.res, e.st2)
                  /\ e.st2 = ERROR_SUCCESS => ~IsEngineError(rOut.res, rOut.res.err.code)

\* format_text: more-data over-reporting by one, then a failing second call
C15_Witness ==
    /\ rOp = "format_text"
    /\ rIn.e.st1 = ERROR_MORE_DATA
    /\ rIn.e.slack = 1
    /\ Len(rIn.e.text) = 2
    /\ rCalls = <<Call("MsiFormatRecord", 1, 0, 0), Call("MsiFormatRecord", 1, 0, 4)>>
    /\ IsEngineError(rOut.res, 1603)

\* the retrieval succeeded at the engine but its bytes are not UTF-8
DecodeFailed ==
    /\ rOp \in {"string_data", "format_text"}
    /\ rIn.e.st1 = ERROR_MORE_DATA
    /\ rIn.e.st2 = ERROR_SUCCESS
    /\ ~IsUtf8(Truncate(rOut.buf, rOut.final_len))

\* the retrieval failed at the engine with status code
StatusFailed(code) ==
    /\ rOp \in {"string_data", "format_text"}
    /\ \/ rIn.e.st1 # ERROR_MORE_DATA /\ code = rIn.e.st1
       \/ rIn.e.st1 = ERROR_MORE_DATA /\ rIn.e.st2 # ERROR_SUCCESS
            /\ code = rIn.e.st2

\* C18 as stated: a failing status gives the engine-code kind with the raw
\* code; bytes that do not decode give an error, never a text, of a kind
\* that is neither the engine-code kind nor the kind of the error for an
\* embedded terminator.
C18_ThreeKinds ==
    /\ \A code \in {ERROR_SUCCESS, 6, 1603} :
          StatusFailed(code) => IsEngineError(rOut.res, code)
    /\ DecodeFailed =>
          /\ rOut.res.tag = "Err"
          /\ rOut.res.err.kind # "ErrorCode"
          /\ rOut.res.err.kind # Error_from_NulError.kind

\* C18 amended: there are two kinds.  A failing status gives ErrorCode with
\* the raw code.  Bytes that do not decode give an error, never a text, of
\* kind Other wrapping the FromUtf8Error; the error for an embedded
\* terminator is of the same kind Other, wrapping the NulError, so the two
\* causes differ by the wrapped error and not by the kind.
C18_TwoKinds ==
    /\ \A code \in {ERROR_SUCCESS, 6, 1603} :
          StatusFailed(code) => IsEngineError(rOut.res, code)
    /\ DecodeFailed =>
          /\ rOut.res.tag = "Err"
          /\ rOut.res.err.kind = "Other"
          /\ rOut.res.err.inner = "FromUtf8Error"
          /\ rOut.res.err.kind = Error_from_NulError.kind
          /\ rOut.res.err.inner # Error_from_NulError.inner
    /\ (rOp \in {"string_data", "format_text"} /\ rOut.res.tag = "Err"
          /\ rOut.res.err.kind = "Other") => DecodeFailed

\* string_data on the lone lead byte 195 failed to decode
C18_Witness ==
    /\ rOp = "string_data"
    /\ rIn.e.text = <<195>>
    /\ DecodeFailed
    /\ rOut.res = Err(Error_from_FromUtf8Error)

====
